---- MODULE Spec2Model ----
(***************************************************************************)
(* Credential anchoring service: the issuance and verification handlers of *)
(* server/storage.ts (registerRoutes), the in-memory record store          *)
(* (MemStorage) and the ledger client they call.                           *)
(*                                                                         *)
(* Strings are sequences of one-character strings, so that template        *)
(* literals, startsWith and the join of the commitment input are computed  *)
(* character by character.  Random 32-byte values are fresh: each one is   *)
(* named by the request and the call site that makes it.  Ledger           *)
(* signatures are fresh per transaction.                                   *)
(***************************************************************************)
EXTENDS Integers, Sequences, FiniteSets, TLC

\* ---------------------------------------------------------------- bounds
MaxIssue == 2      \* issuance requests in one behaviour
MaxVerify == 1     \* verification requests in one behaviour
MaxAnchored == 1   \* issuance requests in a behaviour that also verifies
MaxAgain == 1      \* times a client repeats a verification answered 500
MaxKeyCalls == 3   \* calls of KeyManager.getSigningKeypair in one behaviour
MaxGenerate == 1   \* calls of KeyManager.generateNewKeypair in one behaviour
MaxHealth == 2     \* health requests in one behaviour

IssueIds == 1..MaxIssue
VerifyIds == 1..MaxVerify
KeyCallIds == 1..MaxKeyCalls
HealthIds == 1..MaxHealth

None == "none"

\* ------------------------------------------------------ program constants
\* storage.ts:190  if (balance > 5000)
MinFeeLamports == 5000
\* storage.ts:276  /^[a-f0-9]{64}$/i
HashHexLength == 64

\* storage.ts:141  MEMO_PROGRAM_ID
MEMO_PROGRAM_ID == "MemoSq4gqABAXKb96qnH8TysNcWxMyWCqXgDLGmfcHr"
\* another program a ledger transaction may address (SystemProgram is imported)
SYSTEM_PROGRAM_ID == "11111111111111111111111111111111"

\* storage.ts:215,223,253,287  the sentinel prefix
SimulatedPrefix == <<"s","i","m","u","l","a","t","e","d","_">>

\* ---------------------------------------------------------------- strings
Digits == <<"0","1","2","3","4","5","6","7","8","9">>

RECURSIVE DecStr(_)
\* Number.prototype.toString() of a non-negative integer
DecStr(n) == IF n < 10 THEN <<Digits[n + 1]>>
             ELSE DecStr(n \div 10) \o <<Digits[(n % 10) + 1]>>

\* String.prototype.startsWith
StartsWith(s, p) == /\ Len(s) >= Len(p)
                    /\ SubSeq(s, 1, Len(p)) = p

\* crypto.randomBytes(32).toString('hex') made by request r at call site
\* site: hex text that differs from every other one made
RandomHex(r, site) == <<site>> \o DecStr(r)

\* Date.prototype.toISOString() of the instant t (fixed width, with hyphens)
ToISOString(t) == <<"2","0","2","5","-","0","1","-","0">> \o DecStr(t) \o <<"T","Z">>

\* ------------------------------------------------------------- commitment
\* storage.ts:178  `${studentId}-${universityId}-${credentialType}-${iso}-${nonce}`
DataToHashNoNonce(studentId, universityId, credentialType, issuedAt, nonce) ==
    studentId \o <<"-">> \o DecStr(universityId) \o <<"-">> \o credentialType
      \o <<"-">> \o ToISOString(issuedAt)
DataToHash(studentId, universityId, credentialType, issuedAt, nonce) ==
    studentId \o <<"-">> \o DecStr(universityId) \o <<"-">> \o credentialType
      \o <<"-">> \o ToISOString(issuedAt) \o <<"-">> \o nonce

\* A hash-shaped text: which digest its characters spell, its letter case,
\* its length and whether all its characters are hexadecimal digits.  Two
\* texts are the same string exactly when these four agree.
HexText(d, letterCase, length, hexOnly) ==
    [digest |-> d, letterCase |-> letterCase, length |-> length,
     hexOnly |-> hexOnly]

\* storage.ts:179  crypto.createHash('sha256').update(d).digest('hex'):
\* 64 lowercase hex characters, one digest per input text
Sha256Hex(d) == HexText(d, "lower", HashHexLength, TRUE)

\* ------------------------------------------------------------- validation
\* A request body field is a string, a number, or missing (undefined).
Str(s) == [kind |-> "string", text |-> s]
Num(n) == [kind |-> "number", text |-> DecStr(n)]
Missing == [kind |-> "missing", text |-> <<>>]

IsString(v) == v.kind = "string"

\* storage.ts:112-115 with schema.ts:15,17: both fields are text().notNull(),
\* i.e. z.string(): any string passes, anything else fails
UserInputValidLax(body) ==
    body.studentId.kind # "missing" /\ IsString(body.credentialType)
UserInputValid(body) == IsString(body.studentId) /\ IsString(body.credentialType)

\* schema.ts:13-21,30: the columns of the credentials table; zod's object
\* parse drops every key that is not a column
CredentialColumns ==
    {"id", "studentId", "universityId", "credentialType", "hash",
     "transactionId", "issuedAt"}

\* storage.ts:230  insertCredentialSchema.parse(obj)
InsertCredentialParse(obj) ==
    [f \in (DOMAIN obj) \cap CredentialColumns |-> obj[f]]

\* ------------------------------------------------------------------ funds
\* storage.ts:190  balance > 5000
FundsSufficientLax(balance) == balance > 500
FundsSufficientAlways(balance) == TRUE
FundsSufficient(balance) == balance > MinFeeLamports

\* storage.ts:253,287  transactionId.startsWith("simulated_")
IsSimulatedNever(transactionId) == FALSE
IsSimulated(transactionId) == StartsWith(transactionId, SimulatedPrefix)

\* storage.ts:215,223  "simulated_" + crypto.randomBytes(32).toString('hex')
SimulatedTransactionIdBare(r) == RandomHex(r, "f")
SimulatedTransactionId(r) == SimulatedPrefix \o RandomHex(r, "f")

\* the signature sendAndConfirmTransaction returns for the n-th ledger
\* transaction: base58 text (base58 has no 'l' and no '_')
Signature(n) == <<"5","i","g">> \o DecStr(n)

\* storage.ts:192-196  the memo instruction; Buffer.from(hash) holds the
\* UTF-8 bytes of the hex text
MemoInstructionBlank(hash) ==
    [programId |-> MEMO_PROGRAM_ID,
     data |-> [rep |-> "buffer", text |-> HexText(<<>>, "lower", 0, TRUE)]]
MemoInstruction(hash) ==
    [programId |-> MEMO_PROGRAM_ID, data |-> [rep |-> "buffer", text |-> hash]]

\* ------------------------------------------------------------------ inputs
\* callers as the session layer presents them (req.isAuthenticated, req.user)
Callers ==
    { [authenticated |-> FALSE, role |-> None, id |-> 0],
      [authenticated |-> TRUE, role |-> "university", id |-> 7],
      [authenticated |-> TRUE, role |-> "student", id |-> 8] }

Degree == <<"d","e","g","r","e","e">>

\* the credential types the issuing form offers
CredentialTypes ==
    {Degree,
     <<"c","e","r","t","i","f","i","c","a","t","e">>,
     <<"t","r","a","n","s","c","r","i","p","t">>}

Bodies ==
    { [studentId |-> Str(<<"S","1">>), credentialType |-> Str(Degree),
       universityId |-> Missing],
      [studentId |-> Str(<<"S","1">>), credentialType |-> Str(<<"x">>),
       universityId |-> Num(9)],
      [studentId |-> Missing, credentialType |-> Str(Degree),
       universityId |-> Missing],
      [studentId |-> Num(5), credentialType |-> Str(Degree),
       universityId |-> Missing] }

\* instants new Date() may read
Times == {1}

\* balances connection.getBalance may report (lamports)
Balances == {4999, 5000, 5001}

VARIABLES
    issue,         \* issue[r]: the state of issuance request r
    verify,        \* verify[v]: the state of verification request v
    credentials,   \* MemStorage.credentials, in order of id (id = index)
    ledger,        \* the ledger: confirmed transactions, in order of signature
    commit,        \* two field tuples and the strings built from them
    keys,          \* a KeyManager, its environment and its callers
    isConnected,   \* MemStorage._isConnected
    health         \* health[h]: the state of health request h

vars == <<issue, verify, credentials, ledger, commit, keys, isConnected, health>>

\* values of fields that are not set yet
NoText == <<>>
NoHash == HexText(<<>>, "lower", 0, TRUE)
NoBalance == -1
NoCaller == [authenticated |-> FALSE, role |-> None, id |-> 0]
NoBody == [studentId |-> Missing, credentialType |-> Missing,
           universityId |-> Missing]
NoResponse == [status |-> 0]

\* key material: where it came from and the text it was made of
NoSecret == [encoding |-> None, of |-> NoText]

\* keypair.ts:6  cachedKeypair = null
NoKeypair == [secretKey |-> NoSecret, instance |-> 0]

\* Keypair.generate(): the n-th keypair object made has fresh key material
GeneratedSecret(n) == [encoding |-> "generated", of |-> DecStr(n)]

\* storage.ts:129-132  const keypair = Keypair.generate(): made once when
\* the routes are registered, before any request and any KeyManager call
ApplicationKeypair == [secretKey |-> GeneratedSecret(0), instance |-> 0]

NoCredential ==
    [id |-> 0, studentId |-> NoText, universityId |-> 0,
     credentialType |-> NoText, hash |-> NoHash, transactionId |-> NoText,
     issuedAt |-> 0]

IdleVerify ==
    [pc |-> "idle", input |-> NoHash, credential |-> NoCredential,
     fetch |-> None, fetched |-> <<>>,
     storeLookups |-> 0, ledgerReads |-> 0, outcome |-> None,
     response |-> NoResponse, earlier |-> <<>>]

IdleIssue ==
    [pc |-> "idle", caller |-> NoCaller, body |-> NoBody,
     nonce |-> NoText, studentId |-> NoText, credentialType |-> NoText,
     universityId |-> 0, issuedAt |-> 0, hash |-> NoHash,
     balance |-> NoBalance, balanceThrew |-> FALSE, writeThrew |-> FALSE,
     balanceOf |-> NoKeypair,
     signature |-> NoText, transactionId |-> NoText,
     balanceQueries |-> 0, blockhashQueries |-> 0, submissions |-> 0,
     storeCalls |-> 0, stored |-> None, outcome |-> None,
     response |-> NoResponse]

\* ------------------------------------------------- the commitment's input
NoTuple ==
    [studentId |-> NoText, universityId |-> 0, credentialType |-> NoText,
     issuedAt |-> 0, nonce |-> NoText]

IdleCommit ==
    [pc |-> "idle", left |-> NoTuple, right |-> NoTuple,
     leftData |-> NoText, rightData |-> NoText,
     leftHash |-> NoHash, rightHash |-> NoHash]

\* field tuples an issuance can reach storage.ts:178 with: studentId and
\* credentialType are any strings (z.string()), universityId is the id of the
\* issuing user, issuedAt an instant, nonce the hex text of random bytes
CommitTuples ==
    [studentId : {<<"a">>, <<"a","-","7">>},
     universityId : {7, 8},
     credentialType : {<<"b">>, <<"7","-","b">>},
     issuedAt : Times,
     nonce : {RandomHex(1, "a"), RandomHex(2, "a")}]

\* the request body a field tuple came from
BodyOf(t) ==
    [studentId |-> Str(t.studentId), credentialType |-> Str(t.credentialType),
     universityId |-> Missing]

\* --------------------------------------------------------------- KeyManager
\* process.env.SOLANA_PRIVATE_KEY: unset, or set to a text
EnvUnset == [defined |-> FALSE, text |-> NoText]
EnvSet(text) == [defined |-> TRUE, text |-> text]

\* unset; the empty string; an array of bytes; an array cut short; a
\* base58 text; a text with characters base58 does not have
KeyEnvs ==
    {EnvUnset, EnvSet(<<>>),
     EnvSet(<<"[","1",",","2","]">>), EnvSet(<<"[","1",",">>),
     EnvSet(<<"4","v","J">>), EnvSet(<<"0","O","l">>)}

\* keypair.ts:24  if (privateKeyEnv): unset and the empty string are falsy
EnvProvided(env) == env.defined /\ env.text # <<>>

\* keypair.ts:29  JSON.parse of an array of numbers: brackets around digits
\* and commas; anything else throws
JsonArrayOk(text) ==
    /\ Len(text) >= 2
    /\ text[1] = "[" /\ text[Len(text)] = "]"
    /\ \A i \in 2..(Len(text) - 1) :
         text[i] = "," \/ \E d \in 1..Len(Digits) : text[i] = Digits[d]

\* bs58's alphabet leaves out 0, O, I and l
Base58Excluded == {"0", "O", "I", "l"}

\* keypair.ts:34  bs58.decode throws on a character outside its alphabet
Base58Ok(text) == \A i \in 1..Len(text) : text[i] \notin Base58Excluded

\* keypair.ts:27-36  the key material the environment text decodes to, or
\* NoSecret when decoding throws
DecodeEnvLenient(text) ==
    IF StartsWith(text, <<"[">>)
    THEN [encoding |-> "array", of |-> SubSeq(text, 2, Len(text))]
    ELSE [encoding |-> "base58", of |-> text]
DecodeEnv(text) ==
    IF StartsWith(text, <<"[">>)
    THEN IF JsonArrayOk(text)
         THEN [encoding |-> "array", of |-> SubSeq(text, 2, Len(text) - 1)]
         ELSE NoSecret
    ELSE IF Base58Ok(text)
         THEN [encoding |-> "base58", of |-> text]
         ELSE NoSecret

\* keypair.ts:42  the error a failed decoding is rethrown as
InvalidKeyFormat == "Invalid keypair format in environment variable"

IdleKeyCall ==
    [pc |-> "idle", threw |-> FALSE, error |-> None, result |-> NoKeypair]

\* keypair.ts:5-10  a KeyManager just constructed, in a process with env
NewKeyManager(env) ==
    [cachedKeypair |-> NoKeypair, env |-> env,
     created |-> 0, forCache |-> 0, decodes |-> 0, utility |-> 0,
     utilityKey |-> NoSecret,
     calls |-> [c \in KeyCallIds |-> IdleKeyCall]]

\* storage.ts:387-391  a health request before it starts; 407-408 the
\* initial balance and walletStatus
IdleHealth ==
    [pc |-> "idle", memstoreHealthy |-> FALSE, memstoreStatus |-> None,
     pingCaught |-> FALSE, probe |-> None, blockchainStatus |-> "unknown",
     balanceQuery |-> None, balance |-> 0, walletStatus |-> "no_funds",
     response |-> NoResponse]

Init ==
    /\ issue = [r \in IssueIds |-> IdleIssue]
    /\ verify = [v \in VerifyIds |-> IdleVerify]
    /\ credentials = <<>>
    /\ ledger = <<>>
    /\ commit = IdleCommit
    /\ keys = NewKeyManager(EnvUnset)
    /\ isConnected = TRUE
    /\ health = [h \in HealthIds |-> IdleHealth]

\* ==================================================== POST /api/credentials/issue
\* storage.ts:153  !req.isAuthenticated() || req.user.role !== "university"
UnauthorizedUnlessLoggedIn(caller) == ~caller.authenticated
Unauthorized(caller) == ~caller.authenticated \/ caller.role # "university"

\* storage.ts:175, 242  universityId is req.user.id; validationResult.data
\* holds studentId and credentialType only, so the body has no say
UniversityIdBodyFirst(caller, body) ==
    IF body.universityId.kind = "number"
    THEN CHOOSE n \in 0..9 : DecStr(n) = body.universityId.text
    ELSE caller.id
UniversityId(caller, body) == caller.id

\* storage.ts:151-179: authorization, nonce, validation, commitment, up to
\* the first await (connection.getBalance).  Requests take the slots in order.
IssueBegin(r) ==
    /\ issue[r].pc = "idle"
    /\ \A q \in IssueIds : q < r => issue[q].pc # "idle"
    /\ \E caller \in Callers, body \in Bodies, now \in Times :
         IF Unauthorized(caller)
         THEN issue' = [issue EXCEPT ![r] =
                [@ EXCEPT !.pc = "done", !.caller = caller,
                          !.outcome = "Unauthorized",
                          !.response = [status |-> 403]]]
         ELSE LET nonce == RandomHex(r, "a") IN
              IF ~UserInputValid(body)
              THEN issue' = [issue EXCEPT ![r] =
                     [@ EXCEPT !.pc = "done", !.caller = caller, !.body = body,
                               !.nonce = nonce,
                               !.outcome = "InvalidInput",
                               !.response = [status |-> 400]]]
              ELSE issue' = [issue EXCEPT ![r] =
                     [@ EXCEPT !.pc = "getBalance", !.caller = caller,
                               !.body = body, !.nonce = nonce,
                               !.studentId = body.studentId.text,
                               !.credentialType = body.credentialType.text,
                               !.issuedAt = now,
                               !.universityId = UniversityId(caller, body),
                               !.hash = Sha256Hex(DataToHash(body.studentId.text,
                                           UniversityId(caller, body),
                                           body.credentialType.text,
                                           now, nonce))]]
    /\ UNCHANGED <<verify, credentials, ledger, commit, keys, isConnected, health>>

\* storage.ts:221-227  catch (txError): the simulated id, then on to persist
CatchTxErrorRethrow(rec, r) ==
    [rec EXCEPT !.pc = "done", !.outcome = "StorageError",
                !.response = [status |-> 500]]
CatchTxErrorRetry(rec, r) ==
    IF rec.submissions > 0
    THEN [rec EXCEPT !.pc = "sendAndConfirm"]
    ELSE [rec EXCEPT !.pc = "createCredential",
                     !.transactionId = SimulatedTransactionId(r)]
CatchTxError(rec, r) ==
    [rec EXCEPT !.pc = "createCredential",
                !.transactionId = SimulatedTransactionId(r)]

\* storage.ts:188-190, 213-220: the balance query and the funds branch
IssueGetBalance(r) ==
    /\ issue[r].pc = "getBalance"
    /\ \/ \E balance \in Balances :
            LET rec == [issue[r] EXCEPT !.balance = balance,
                                        !.balanceOf = ApplicationKeypair,
                                        !.balanceQueries = @ + 1] IN
            IF FundsSufficient(balance)
            THEN issue' = [issue EXCEPT ![r] =
                              [rec EXCEPT !.pc = "getLatestBlockhash"]]
            ELSE issue' = [issue EXCEPT ![r] =
                    [rec EXCEPT !.pc = "createCredential",
                                !.transactionId = SimulatedTransactionId(r)]]
       \/ \* getBalance rejects
          issue' = [issue EXCEPT ![r] =
             CatchTxError([issue[r] EXCEPT !.balanceThrew = TRUE,
                                           !.balanceOf = ApplicationKeypair,
                                           !.balanceQueries = @ + 1], r)]
    /\ UNCHANGED <<verify, credentials, ledger, commit, keys, isConnected, health>>

\* storage.ts:192-199: build the transaction, fetch the recent blockhash
IssueGetLatestBlockhash(r) ==
    /\ issue[r].pc = "getLatestBlockhash"
    /\ \/ issue' = [issue EXCEPT ![r] =
             [@ EXCEPT !.pc = "sendAndConfirm", !.blockhashQueries = @ + 1]]
       \/ \* getLatestBlockhash rejects
          issue' = [issue EXCEPT ![r] =
             CatchTxError([issue[r] EXCEPT !.writeThrew = TRUE,
                                           !.blockhashQueries = @ + 1], r)]
    /\ UNCHANGED <<verify, credentials, ledger, commit, keys, isConnected, health>>

\* storage.ts:202-212: the one submission.  It is confirmed (the ledger gains
\* the transaction and the signature is returned), rejected (the ledger gains
\* nothing), or times out (the transaction may have landed all the same).
IssueSendAndConfirm(r) ==
    /\ issue[r].pc = "sendAndConfirm"
    /\ LET tx == [instructions |-> <<MemoInstruction(issue[r].hash)>>,
                  feePayer |-> ApplicationKeypair,
                  signers |-> <<ApplicationKeypair>>,
                  request |-> r]
           sent == [issue[r] EXCEPT !.submissions = @ + 1]
       IN
       \/ \* confirmed
          /\ ledger' = Append(ledger, tx)
          /\ issue' = [issue EXCEPT ![r] =
                [sent EXCEPT !.pc = "createCredential",
                             !.signature = Signature(Len(ledger) + 1),
                             !.transactionId = Signature(Len(ledger) + 1)]]
       \/ \* rejected, or timed out (landed or not)
          /\ \E landed \in BOOLEAN :
               ledger' = IF landed THEN Append(ledger, tx) ELSE ledger
          /\ issue' = [issue EXCEPT ![r] =
                CatchTxError([sent EXCEPT !.writeThrew = TRUE], r)]
    /\ UNCHANGED <<verify, credentials, commit, keys, isConnected, health>>

\* storage.ts:54-59  MemStorage.createCredential
CreateCredentialTwice(store, credential) ==
    LET rec(n) == [f \in (DOMAIN credential) \cup {"id"} |->
                     IF f = "id" THEN n ELSE credential[f]]
    IN store \o <<rec(Len(store) + 1), rec(Len(store) + 2)>>
CreateCredential(store, credential) ==
    Append(store, [f \in (DOMAIN credential) \cup {"id"} |->
                     IF f = "id" THEN Len(store) + 1 ELSE credential[f]])

\* storage.ts:256-269  the outer catch: status 500, "Failed to issue credential"
IssueCatchAsBadRequest == [outcome |-> "InvalidInput", status |-> 400]
IssueCatch == [outcome |-> "StorageError", status |-> 500]

\* storage.ts:229-255: parse, store, respond; or the store's promise rejects
IssuePersist(r) ==
    /\ issue[r].pc = "createCredential"
    /\ LET rq == issue[r]
           data == InsertCredentialParse(
                     [studentId |-> rq.studentId,
                      credentialType |-> rq.credentialType,
                      universityId |-> rq.universityId,
                      hash |-> rq.hash,
                      transactionId |-> rq.transactionId,
                      issuedAt |-> rq.issuedAt,
                      nonce |-> rq.nonce])
           toStore == [f \in (DOMAIN data) \cup {"universityId"} |->
                         IF f = "universityId"
                         THEN UniversityId(rq.caller, rq.body) ELSE data[f]]
           stored == CreateCredential(credentials, toStore)
           credential == stored[Len(stored)]
       IN
       \/ /\ credentials' = stored
          /\ issue' = [issue EXCEPT ![r] =
                [@ EXCEPT !.pc = "done", !.storeCalls = @ + 1,
                          !.stored = "accepted",
                          !.outcome = "Persisted",
                          !.response =
                             [status |-> 200,
                              id |-> credential.id,
                              hash |-> credential.hash,
                              transactionId |-> credential.transactionId,
                              issuedAt |-> credential.issuedAt,
                              isSimulated |-> IsSimulated(rq.transactionId)]]]
       \/ \* storage.createCredential rejects: nothing is stored
          /\ credentials' = credentials
          /\ issue' = [issue EXCEPT ![r] =
                [@ EXCEPT !.pc = "done", !.storeCalls = @ + 1,
                          !.stored = "rejected",
                          !.outcome = IssueCatch.outcome,
                          !.response = [status |-> IssueCatch.status]]]
    /\ UNCHANGED <<verify, ledger, commit, keys, isConnected, health>>

\* ================================================ GET /api/credentials/verify/:hash
\* a digest no issuance produced
UnissuedDigest == <<"u","n","i","s","s","u","e","d">>

\* the digests the issuances so far have committed to
KnownDigests ==
    {issue[r].hash.digest : r \in {q \in IssueIds : issue[q].hash # NoHash}}

\* the texts a client may put in the URL: a digest as issued, the same in
\* upper case, a digest never issued, a text one character short, or a text
\* with a character that is not a hex digit
VerifyInputs ==
    {HexText(d, "lower", HashHexLength, TRUE) : d \in KnownDigests}
      \cup {HexText(d, "upper", HashHexLength, TRUE) : d \in KnownDigests}
      \cup {HexText(UnissuedDigest, "lower", HashHexLength, TRUE),
            HexText(UnissuedDigest, "lower", HashHexLength - 1, TRUE),
            HexText(UnissuedDigest, "lower", HashHexLength, FALSE)}

\* storage.ts:276  !hash || !/^[a-f0-9]{64}$/i.test(hash), negated: the i flag
\* makes the character class match either letter case
HashFormatOkAnyLength(hash) == hash.hexOnly
HashFormatOk(hash) == hash.length = HashHexLength /\ hash.hexOnly

\* storage.ts:276-278
VerifyBegin(v) ==
    /\ verify[v].pc = "idle"
    /\ \A w \in VerifyIds : w < v => verify[w].pc # "idle"
    /\ \E hash \in VerifyInputs :
         verify' = [verify EXCEPT ![v] =
            IF ~HashFormatOk(hash)
            THEN [@ EXCEPT !.pc = "done", !.input = hash,
                           !.outcome = "MalformedHash",
                           !.response = [status |-> 400]]
            ELSE [@ EXCEPT !.pc = "getCredentialByHash", !.input = hash]]
    /\ UNCHANGED <<issue, credentials, ledger, commit, keys, isConnected, health>>

\* storage.ts:61-65  MemStorage.getCredentialByHash: the first credential in
\* id order whose hash is the given string, or NoCredential (undefined)
GetCredentialByHashAnyCase(store, hash) ==
    LET hits == {i \in 1..Len(store) : store[i].hash.digest = hash.digest} IN
    IF hits = {} THEN NoCredential
    ELSE store[CHOOSE i \in hits : \A j \in hits : i <= j]
GetCredentialByHash(store, hash) ==
    LET hits == {i \in 1..Len(store) : store[i].hash = hash} IN
    IF hits = {} THEN NoCredential
    ELSE store[CHOOSE i \in hits : \A j \in hits : i <= j]

\* storage.ts:292-302  the response of the simulated branch
SimulatedVerifiedResponse(credential) ==
    [status |-> 200, verified |-> TRUE, simulatedOnly |-> TRUE,
     id |-> credential.id, studentId |-> credential.studentId,
     credentialType |-> credential.credentialType,
     universityId |-> credential.universityId,
     issuedAt |-> credential.issuedAt]

\* storage.ts:281-302: lookup, not-found, and the simulated branch
\* (MemStorage.getCredentialByHash never rejects)
VerifyLookupMarking(v) ==
    /\ verify[v].pc = "getCredentialByHash"
    /\ verify' = [verify EXCEPT ![v].pc = "done", ![v].storeLookups = @ + 1,
                                ![v].outcome = "NotFound",
                                ![v].response = [status |-> 404]]
    /\ credentials' = [i \in 1..Len(credentials) |->
                         [credentials[i] EXCEPT !.transactionId = NoText]]
    /\ UNCHANGED <<issue, ledger, commit, keys, isConnected, health>>
VerifyLookup(v) ==
    /\ verify[v].pc = "getCredentialByHash"
    /\ LET credential == GetCredentialByHash(credentials, verify[v].input)
           looked == [verify[v] EXCEPT !.storeLookups = @ + 1]
       IN
       verify' = [verify EXCEPT ![v] =
            IF credential = NoCredential
            THEN [looked EXCEPT !.pc = "done", !.outcome = "NotFound",
                                !.response = [status |-> 404]]
            ELSE IF IsSimulated(credential.transactionId)
            THEN [looked EXCEPT !.pc = "done", !.credential = credential,
                                !.outcome = "Verified",
                                !.response =
                                    SimulatedVerifiedResponse(credential)]
            ELSE [looked EXCEPT !.pc = "getTransaction",
                                !.credential = credential]]
    /\ UNCHANGED <<issue, credentials, ledger, commit, keys, isConnected, health>>

\* Buffer.from(data, 'base64').toString('utf8') (storage.ts:324).  A Buffer
\* argument is copied as it is; a base64 string yields the bytes it encodes;
\* the hex text itself, read as base64, yields 48 bytes that are not hex text.
DecodeDataStrict(data) ==
    IF data.rep = "base64" THEN data.text
    ELSE HexText(data.text.digest, "lower", 48, FALSE)
DecodeData(data) ==
    IF data.rep \in {"buffer", "base64"} THEN data.text
    ELSE HexText(data.text.digest, "lower", 48, FALSE)

RECURSIVE ScanFrom(_, _, _)
\* storage.ts:321-330  the loop over the instructions, from index i on
ScanFrom(instructions, hash, i) ==
    IF i > Len(instructions) THEN FALSE
    ELSE IF /\ instructions[i].programId = MEMO_PROGRAM_ID
            /\ DecodeData(instructions[i].data) = hash
         THEN TRUE
         ELSE ScanFrom(instructions, hash, i + 1)

HashVerifiedFirstOnly(instructions, hash) ==
    /\ Len(instructions) > 0
    /\ DecodeData(instructions[1].data) = hash
HashVerified(instructions, hash) == ScanFrom(instructions, hash, 1)

\* the ledger transaction with the given signature, as a set of indices
LedgerIndex(transactionId) ==
    {n \in 1..Len(ledger) : Signature(n) = transactionId}

\* what a (possibly mocked) ledger client may hand back for a transaction
\* that holds the instruction list ins: the list itself, the payload as a
\* base64 string, the payload as the plain hex string, another payload,
\* another program, or a foreign instruction ahead of it
Renderings(ins) ==
    {ins,
     [i \in 1..Len(ins) |-> [ins[i] EXCEPT !.data.rep = "base64"]],
     [i \in 1..Len(ins) |-> [ins[i] EXCEPT !.data.rep = "utf8"]],
     [i \in 1..Len(ins) |->
        [ins[i] EXCEPT !.data.text = Sha256Hex(UnissuedDigest)]],
     [i \in 1..Len(ins) |-> [ins[i] EXCEPT !.programId = SYSTEM_PROGRAM_ID]],
     <<[programId |-> SYSTEM_PROGRAM_ID,
        data |-> [rep |-> "base64", text |-> Sha256Hex(UnissuedDigest)]]>>
       \o ins}

\* storage.ts:340-357  the response of the ledger branch
LedgerVerifiedResponse(credential, slot) ==
    [status |-> 200, verified |-> TRUE, simulatedOnly |-> FALSE,
     id |-> credential.id, studentId |-> credential.studentId,
     credentialType |-> credential.credentialType,
     universityId |-> credential.universityId,
     issuedAt |-> credential.issuedAt,
     blockchainProof |-> [transactionId |-> credential.transactionId,
                          slot |-> slot]]

\* storage.ts:311-318  if (!transaction): 404 "Transaction not found"
TransactionAbsentUnchecked == [outcome |-> "LedgerUnavailable", status |-> 500]
TransactionAbsent == [outcome |-> "TransactionNotFound", status |-> 404]

\* storage.ts:358-370  the inner catch: 500 "Blockchain verification failed";
\* it logs and answers, and writes nothing else
CatchBlockchainErrorAsVerified == [outcome |-> "Verified", status |-> 200]
CatchBlockchainError == [outcome |-> "LedgerUnavailable", status |-> 500]

\* storage.ts:304-370: the ledger read, the memo match and the inner catch
VerifyGetTransaction(v) ==
    /\ verify[v].pc = "getTransaction"
    /\ LET rq == [verify[v] EXCEPT !.ledgerReads = @ + 1]
           held == LedgerIndex(rq.credential.transactionId)
       IN
       \/ \* getTransaction rejects
          verify' = [verify EXCEPT ![v] =
            [rq EXCEPT !.pc = "done", !.fetch = "threw",
                       !.outcome = CatchBlockchainError.outcome,
                       !.response = [status |-> CatchBlockchainError.status]]]
       \/ \* getTransaction resolves to null
          verify' = [verify EXCEPT ![v] =
            [rq EXCEPT !.pc = "done", !.fetch = "absent",
                       !.outcome = TransactionAbsent.outcome,
                       !.response = [status |-> TransactionAbsent.status]]]
       \/ \E n \in held : \E ins \in Renderings(ledger[n].instructions) :
            verify' = [verify EXCEPT ![v] =
              IF ~HashVerified(ins, rq.input)
              THEN [rq EXCEPT !.pc = "done", !.fetch = "found",
                              !.fetched = ins,
                              !.outcome = "HashMismatch",
                              !.response = [status |-> 400]]
              ELSE [rq EXCEPT !.pc = "done", !.fetch = "found",
                              !.fetched = ins,
                              !.outcome = "Verified",
                              !.response =
                                 LedgerVerifiedResponse(rq.credential, n)]]
    /\ UNCHANGED <<issue, credentials, ledger, commit, keys, isConnected, health>>

\* The client that was answered 500 sends the same GET again: a new request
\* for the same :hash (storage.ts:272-275), which starts with nothing of the
\* earlier one but what the store and the ledger hold.  earlier lists the
\* outcomes of the requests this one follows.
VerifyAgain(v) ==
    /\ verify[v].pc = "done"
    /\ verify[v].response.status = 500
    /\ Len(verify[v].earlier) < MaxAgain
    /\ verify' = [verify EXCEPT ![v] =
          [IdleVerify EXCEPT !.pc = "getCredentialByHash",
                             !.input = verify[v].input,
                             !.earlier = Append(verify[v].earlier,
                                                verify[v].outcome)]]
    /\ UNCHANGED <<issue, credentials, ledger, commit, keys, isConnected, health>>

\* ================================================== the commitment's input
\* storage.ts:178-179 applied to the two tuples
CommitJoin ==
    /\ commit.pc = "chosen"
    /\ LET data(t) == DataToHash(t.studentId, t.universityId,
                                 t.credentialType, t.issuedAt, t.nonce)
       IN commit' = [commit EXCEPT
                       !.pc = "joined",
                       !.leftData = data(commit.left),
                       !.rightData = data(commit.right),
                       !.leftHash = Sha256Hex(data(commit.left)),
                       !.rightHash = Sha256Hex(data(commit.right))]
    /\ UNCHANGED <<issue, verify, credentials, ledger, keys,
                   isConnected, health>>

\* ============================================================== KeyManager
\* keypair.ts:18  if (this.cachedKeypair)
CachedKeypairHitNever(cache) == FALSE
CachedKeypairHit(cache) == cache # NoKeypair

\* keypair.ts:16-69  getSigningKeypair.  The body has no await, so a call
\* runs from the cache test to its return (or throw) in one step; the
\* promise it returns is settled, and the caller resumes later.
GetSigningKeypair(c) ==
    /\ keys.calls[c].pc = "idle"
    /\ \A d \in KeyCallIds : d < c => keys.calls[d].pc # "idle"
    /\ LET settled(kp) == [pc |-> "settled", threw |-> FALSE,
                           error |-> None, result |-> kp]
           tried == IF EnvProvided(keys.env) THEN 1 ELSE 0
           made(secret) == [secretKey |-> secret,
                            instance |-> keys.created + 1]
           secret == IF EnvProvided(keys.env) THEN DecodeEnv(keys.env.text)
                     ELSE GeneratedSecret(keys.created + 1)
       IN
       keys' =
         IF CachedKeypairHit(keys.cachedKeypair)
         THEN [keys EXCEPT !.calls[c] = settled(keys.cachedKeypair)]
         ELSE IF secret = NoSecret
         THEN [keys EXCEPT !.decodes = @ + tried,
                           !.calls[c] =
                              [pc |-> "settled", threw |-> TRUE,
                               error |-> InvalidKeyFormat,
                               result |-> NoKeypair]]
         ELSE [keys EXCEPT !.cachedKeypair = made(secret),
                           !.created = @ + 1,
                           !.forCache = @ + 1,
                           !.decodes = @ + tried,
                           !.calls[c] = settled(made(secret))]
    /\ UNCHANGED <<issue, verify, credentials, ledger, commit,
                   isConnected, health>>

\* the caller that awaited the promise goes on with what it settled to
KeyCallerResume(c) ==
    /\ keys.calls[c].pc = "settled"
    /\ keys' = [keys EXCEPT !.calls[c].pc = "resumed"]
    /\ UNCHANGED <<issue, verify, credentials, ledger, commit,
                   isConnected, health>>

\* keypair.ts:75-86  generateNewKeypair: a keypair of its own, returned as
\* text; the cache is not read or written
GenerateNewKeypairCaching ==
    /\ keys.utility < MaxGenerate
    /\ keys' = [keys EXCEPT !.created = @ + 1,
                            !.utility = @ + 1,
                            !.utilityKey = GeneratedSecret(keys.created + 1),
                            !.cachedKeypair =
                               [secretKey |-> GeneratedSecret(keys.created + 1),
                                instance |-> keys.created + 1]]
    /\ UNCHANGED <<issue, verify, credentials, ledger, commit,
                   isConnected, health>>
GenerateNewKeypair ==
    /\ keys.utility < MaxGenerate
    /\ keys' = [keys EXCEPT !.created = @ + 1,
                            !.utility = @ + 1,
                            !.utilityKey = GeneratedSecret(keys.created + 1)]
    /\ UNCHANGED <<issue, verify, credentials, ledger, commit,
                   isConnected, health>>

\* ========================================================== GET /api/health
\* storage.ts:390-394: isConnected() is read twice for the memstore entry,
\* then the handler awaits the ping.  Requests take the slots in order.
HealthBegin(h) ==
    /\ health[h].pc = "idle"
    /\ \A g \in HealthIds : g < h => health[g].pc # "idle"
    /\ health' = [health EXCEPT ![h] =
          [@ EXCEPT !.pc = "ping",
                    !.memstoreHealthy = isConnected,
                    !.memstoreStatus = IF isConnected THEN "connected"
                                       ELSE "disconnected"]]
    /\ UNCHANGED <<issue, verify, credentials, ledger, commit, keys,
                   isConnected>>

\* storage.ts:79-89, 446-450  MemStorage.ping: it resolves to _isConnected,
\* or its catch clears _isConnected; it never rejects
HealthPing(h) ==
    /\ health[h].pc = "ping"
    /\ \/ /\ health' = [health EXCEPT ![h].pc = "getLatestBlockhash"]
          /\ isConnected' = isConnected
       \/ /\ health' = [health EXCEPT ![h].pc = "getLatestBlockhash",
                                       ![h].pingCaught = TRUE]
          /\ isConnected' = FALSE
    /\ UNCHANGED <<issue, verify, credentials, ledger, commit, keys>>

\* storage.ts:397-404  the ledger probe
HealthGetLatestBlockhash(h) ==
    /\ health[h].pc = "getLatestBlockhash"
    /\ \/ health' = [health EXCEPT ![h] =
             [@ EXCEPT !.pc = "getBalance", !.probe = "resolved",
                       !.blockchainStatus = "connected"]]
       \/ health' = [health EXCEPT ![h] =
             [@ EXCEPT !.pc = "getBalance", !.probe = "rejected",
                       !.blockchainStatus = "disconnected"]]
    /\ UNCHANGED <<issue, verify, credentials, ledger, commit, keys,
                   isConnected>>

\* storage.ts:411  balance > 5000 ? "funded" : "insufficient_funds"
WalletStatus(balance) ==
    IF balance > MinFeeLamports THEN "funded" ELSE "insufficient_funds"

\* storage.ts:416  memstoreStatus.healthy && blockchainStatus === "connected"
AllHealthyMemstoreOnly(memstoreHealthy, blockchainStatus) == memstoreHealthy
AllHealthy(memstoreHealthy, blockchainStatus) ==
    memstoreHealthy /\ blockchainStatus = "connected"

\* storage.ts:418-434  the response
HealthResponse(rq) ==
    LET allHealthy == AllHealthy(rq.memstoreHealthy, rq.blockchainStatus) IN
    [status |-> IF allHealthy THEN 200 ELSE 503,
     overall |-> IF allHealthy THEN "healthy" ELSE "degraded",
     memstore |-> [healthy |-> rq.memstoreHealthy,
                   status |-> rq.memstoreStatus],
     blockchain |-> [status |-> rq.blockchainStatus],
     wallet |-> [publicKey |-> ApplicationKeypair,
                 status |-> rq.walletStatus,
                 balance |-> rq.balance,
                 canIssueTxs |-> rq.balance > MinFeeLamports]]

\* storage.ts:406-434  the wallet query, the aggregation and the response
\* (the outer catch at 435-442 has nothing left to catch)
HealthGetBalance(h) ==
    /\ health[h].pc = "getBalance"
    /\ \/ \E balance \in Balances :
            LET rq == [health[h] EXCEPT !.balanceQuery = "resolved",
                                        !.balance = balance,
                                        !.walletStatus = WalletStatus(balance)]
            IN health' = [health EXCEPT ![h] =
                            [rq EXCEPT !.pc = "done",
                                       !.response = HealthResponse(rq)]]
       \/ \* getBalance rejects: balance and walletStatus stay as initialised
          LET rq == [health[h] EXCEPT !.balanceQuery = "rejected"]
          IN health' = [health EXCEPT ![h] =
                          [rq EXCEPT !.pc = "done",
                                     !.response = HealthResponse(rq)]]
    /\ UNCHANGED <<issue, verify, credentials, ledger, commit, keys,
                   isConnected>>

\* ------------------------------------------------------------ specifications
\* The issuance service: any number of interleaved POST requests.
Next ==
    \/ \E r \in IssueIds : IssueBegin(r)
    \/ \E r \in IssueIds : IssueGetBalance(r)
    \/ \E r \in IssueIds : IssueGetLatestBlockhash(r)
    \/ \E r \in IssueIds : IssueSendAndConfirm(r)
    \/ \E r \in IssueIds : IssuePersist(r)

Spec == Init /\ [][Next]_vars

\* Issuance and verification together: GET requests interleaved with the
\* steps of the POST requests that anchor what they verify.
AnchoredIds == {r \in IssueIds : r <= MaxAnchored}

NextVerify ==
    \/ \E r \in AnchoredIds : IssueBegin(r)
    \/ \E r \in AnchoredIds : IssueGetBalance(r)
    \/ \E r \in AnchoredIds : IssueGetLatestBlockhash(r)
    \/ \E r \in AnchoredIds : IssueSendAndConfirm(r)
    \/ \E r \in AnchoredIds : IssuePersist(r)
    \/ \E v \in VerifyIds : VerifyBegin(v)
    \/ \E v \in VerifyIds : VerifyLookup(v)
    \/ \E v \in VerifyIds : VerifyGetTransaction(v)

SpecVerify == Init /\ [][NextVerify]_vars

\* Issuance and one client that verifies a hash and sends the request
\* again, up to MaxAgain times, each time it is answered 500.
RepeatingIds == {v \in VerifyIds : \A w \in VerifyIds : v <= w}

NextVerifyAgain ==
    \/ \E r \in AnchoredIds : IssueBegin(r)
    \/ \E r \in AnchoredIds : IssueGetBalance(r)
    \/ \E r \in AnchoredIds : IssueGetLatestBlockhash(r)
    \/ \E r \in AnchoredIds : IssueSendAndConfirm(r)
    \/ \E r \in AnchoredIds : IssuePersist(r)
    \/ \E v \in RepeatingIds : VerifyBegin(v)
    \/ \E v \in RepeatingIds : VerifyLookup(v)
    \/ \E v \in RepeatingIds : VerifyGetTransaction(v)
    \/ \E v \in RepeatingIds : VerifyAgain(v)

SpecVerifyAgain == Init /\ [][NextVerifyAgain]_vars

\* The commitment builder alone, on any two field tuples.
InitCommit ==
    /\ issue = [r \in IssueIds |-> IdleIssue]
    /\ verify = [v \in VerifyIds |-> IdleVerify]
    /\ credentials = <<>>
    /\ ledger = <<>>
    /\ \E l \in CommitTuples, r \in CommitTuples :
         commit = [IdleCommit EXCEPT !.pc = "chosen", !.left = l, !.right = r]
    /\ keys = NewKeyManager(EnvUnset)
    /\ isConnected = TRUE
    /\ health = [h \in HealthIds |-> IdleHealth]

NextCommit == CommitJoin

SpecCommit == InitCommit /\ [][NextCommit]_vars

\* One KeyManager in a process started with any of the environments, its
\* callers interleaved.
InitKeys ==
    /\ issue = [r \in IssueIds |-> IdleIssue]
    /\ verify = [v \in VerifyIds |-> IdleVerify]
    /\ credentials = <<>>
    /\ ledger = <<>>
    /\ commit = IdleCommit
    /\ \E env \in KeyEnvs : keys = NewKeyManager(env)
    /\ isConnected = TRUE
    /\ health = [h \in HealthIds |-> IdleHealth]

NextKeys ==
    \/ \E c \in KeyCallIds : GetSigningKeypair(c)
    \/ \E c \in KeyCallIds : KeyCallerResume(c)
    \/ GenerateNewKeypair

SpecKeys == InitKeys /\ [][NextKeys]_vars

\* The liveness monitor: any number of interleaved health requests.
NextHealth ==
    \/ \E h \in HealthIds : HealthBegin(h)
    \/ \E h \in HealthIds : HealthPing(h)
    \/ \E h \in HealthIds : HealthGetLatestBlockhash(h)
    \/ \E h \in HealthIds : HealthGetBalance(h)

SpecHealth == Init /\ [][NextHealth]_vars

\* The issuance service in a process that also holds a KeyManager, started
\* with any of the environments.
NextSigner ==
    \/ \E r \in AnchoredIds : IssueBegin(r)
    \/ \E r \in AnchoredIds : IssueGetBalance(r)
    \/ \E r \in AnchoredIds : IssueGetLatestBlockhash(r)
    \/ \E r \in AnchoredIds : IssueSendAndConfirm(r)
    \/ \E r \in AnchoredIds : IssuePersist(r)
    \/ \E c \in KeyCallIds : GetSigningKeypair(c)
    \/ \E c \in KeyCallIds : KeyCallerResume(c)

SpecSigner == InitKeys /\ [][NextSigner]_vars

\* ===================================================================== claims
\* what the formulas below read off a state
HasPrefix(transactionId) == StartsWith(transactionId, SimulatedPrefix)

\* the stored credentials whose hash is the one request r committed to
StoredFor(r) == {i \in 1..Len(credentials) : credentials[i].hash = issue[r].hash}

\* the ledger transactions request r submitted
SubmittedBy(r) == {n \in 1..Len(ledger) : ledger[n].request = r}

\* request r has its transactionId (it is at Persist or past it)
HasTransactionId(r) ==
    /\ issue[r].hash # NoHash
    /\ issue[r].pc \in {"createCredential", "done"}

\* the balance query of request r answered, with a balance not above the fee
FoundInsufficient(r) ==
    /\ issue[r].balance # NoBalance
    /\ issue[r].balance <= MinFeeLamports

\* C1: whenever the balance query of an issuance reports a balance not above
\* the minimum fee, that issuance asks for no block reference and submits
\* nothing to the ledger, its transactionId carries the prefix "simulated_",
\* and once it is persisted the stored and the returned transactionId carry
\* the prefix and the returned isSimulated is true.
C1_FallbackOnInsufficientFunds ==
    \A r \in IssueIds :
      FoundInsufficient(r) =>
        /\ issue[r].blockhashQueries = 0
        /\ issue[r].submissions = 0
        /\ SubmittedBy(r) = {}
        /\ HasTransactionId(r)
        /\ HasPrefix(issue[r].transactionId)
        /\ issue[r].stored = "accepted" =>
             /\ issue[r].outcome = "Persisted"
             /\ HasPrefix(issue[r].response.transactionId)
             /\ issue[r].response.isSimulated = TRUE
             /\ StoredFor(r) # {}
             /\ \A i \in StoredFor(r) : HasPrefix(credentials[i].transactionId)

C1_Witness ==
    \E r \in IssueIds :
      /\ issue[r].balance = 4999
      /\ issue[r].outcome = "Persisted"
      /\ issue[r].response.isSimulated = TRUE

\* C2: once the block-reference query or the submission of an issuance has
\* thrown, the issuance holds a simulated transactionId and goes on to
\* Persist: it never ends without its one store call, it ends in Persisted
\* with a simulated transactionId when the store accepts the record, and it
\* fails only when the store rejects it.
C2_WriteFailureAbsorbed ==
    \A r \in IssueIds :
      issue[r].writeThrew =>
        /\ issue[r].pc \in {"createCredential", "done"}
        /\ HasPrefix(issue[r].transactionId)
        /\ issue[r].pc = "done" =>
             /\ issue[r].storeCalls = 1
             /\ issue[r].stored \in {"accepted", "rejected"}
             /\ issue[r].stored = "accepted" =>
                  /\ issue[r].outcome = "Persisted"
                  /\ issue[r].response.status = 200
                  /\ issue[r].response.isSimulated = TRUE
                  /\ HasPrefix(issue[r].response.transactionId)
                  /\ \E i \in StoredFor(r) :
                       HasPrefix(credentials[i].transactionId)

C2_Witness ==
    \E r \in IssueIds :
      /\ issue[r].writeThrew
      /\ issue[r].submissions = 1
      /\ issue[r].outcome = "Persisted"
      /\ HasPrefix(issue[r].response.transactionId)

\* the ledger transaction whose signature request r was given: it was
\* submitted by r and carries r's hash as its memo
ConfirmedFor(r) ==
    {n \in SubmittedBy(r) :
       /\ Signature(n) = issue[r].transactionId
       /\ ledger[n].instructions = <<MemoInstruction(issue[r].hash)>>}

\* C3 as stated: the transactionId is simulated exactly when the balance was
\* found insufficient or the ledger write threw.
C3_Original ==
    \A r \in IssueIds :
      HasTransactionId(r) =>
        (HasPrefix(issue[r].transactionId)
           <=> (FoundInsufficient(r) \/ issue[r].writeThrew))

\* C3 amended: the transactionId is simulated exactly when the balance was
\* found insufficient, the balance query itself threw, or the ledger write
\* threw; in every other issuance it is the signature of the transaction
\* this issuance had confirmed, and the returned isSimulated tells which.
C3_SimulatedExactlyOnFallback ==
    \A r \in IssueIds :
      HasTransactionId(r) =>
        /\ HasPrefix(issue[r].transactionId)
             <=> \/ FoundInsufficient(r)
                 \/ issue[r].balanceThrew
                 \/ issue[r].writeThrew
        /\ ~HasPrefix(issue[r].transactionId) =>
             /\ issue[r].transactionId = issue[r].signature
             /\ ConfirmedFor(r) # {}
        /\ issue[r].outcome = "Persisted" =>
             /\ issue[r].response.transactionId = issue[r].transactionId
             /\ issue[r].response.isSimulated
                  = HasPrefix(issue[r].transactionId)
             /\ \A i \in StoredFor(r) :
                  credentials[i].transactionId = issue[r].transactionId

C3_Witness ==
    \E r, q \in IssueIds :
      /\ issue[r].outcome = "Persisted"
      /\ issue[r].response.isSimulated = FALSE
      /\ issue[r].response.transactionId = issue[r].signature
      /\ issue[q].outcome = "Persisted"
      /\ issue[q].balanceThrew
      /\ issue[q].response.isSimulated = TRUE

\* C8: an issuance submits at most one transaction, and at most one ledger
\* transaction comes from it, however its write ended.
C8_AtMostOneSubmission ==
    \A r \in IssueIds :
      /\ issue[r].submissions <= 1
      /\ Cardinality(SubmittedBy(r)) <= 1
      /\ issue[r].writeThrew => issue[r].pc # "sendAndConfirm"

C8_Witness ==
    \E r \in IssueIds :
      /\ issue[r].writeThrew
      /\ issue[r].submissions = 1
      /\ issue[r].pc = "done"

\* the body of request r is not two strings
BodyFailsValidation(r) ==
    \/ issue[r].body.studentId.kind # "string"
    \/ issue[r].body.credentialType.kind # "string"

\* C9: an authorized issuance whose body fails validation has ended in
\* InvalidInput (status 400) without a balance query, a block-reference
\* query, a submission or a store call, and nothing in the ledger or the
\* store comes from it.
C9_InvalidInputTouchesNothing ==
    \A r \in IssueIds :
      (/\ issue[r].pc # "idle"
       /\ ~Unauthorized(issue[r].caller)
       /\ BodyFailsValidation(r)) =>
        /\ issue[r].pc = "done"
        /\ issue[r].outcome = "InvalidInput"
        /\ issue[r].response.status = 400
        /\ issue[r].balanceQueries = 0
        /\ issue[r].blockhashQueries = 0
        /\ issue[r].submissions = 0
        /\ issue[r].storeCalls = 0
        /\ SubmittedBy(r) = {}
        /\ issue[r].hash = NoHash

C9_Witness ==
    \E r, q \in IssueIds :
      /\ issue[r].outcome = "InvalidInput"
      /\ issue[r].body.studentId.kind = "number"
      /\ issue[q].outcome = "Persisted"
      /\ Len(credentials) = 1

\* C10: when the store rejects the record, the issuance has ended in
\* StorageError (status 500), the store holds no credential with its hash,
\* and the transaction confirmed for it, if there is one, is on the ledger
\* with its memo.
C10_StorageErrorKeepsLedgerWrite ==
    \A r \in IssueIds :
      issue[r].stored = "rejected" =>
        /\ issue[r].pc = "done"
        /\ issue[r].outcome = "StorageError"
        /\ issue[r].response.status = 500
        /\ StoredFor(r) = {}
        /\ issue[r].signature # NoText =>
             \E n \in 1..Len(ledger) :
               /\ Signature(n) = issue[r].signature
               /\ ledger[n].request = r
               /\ ledger[n].instructions = <<MemoInstruction(issue[r].hash)>>

C10_Witness ==
    \E r \in IssueIds :
      /\ issue[r].stored = "rejected"
      /\ issue[r].outcome = "StorageError"
      /\ issue[r].signature # NoText
      /\ Len(ledger) >= 1

\* ------------------------------------------------- issuance claims, continued
\* request r was authorized and its body passed validation
PassedValidation(r) ==
    /\ issue[r].pc # "idle"
    /\ ~Unauthorized(issue[r].caller)
    /\ ~BodyFailsValidation(r)

\* C11: an issuance that passed validation makes no store-creation call
\* before Persist and exactly one by the time it has ended, on the real and
\* on the simulated path alike; an accepted call leaves exactly one record
\* for it, and the store holds one record per accepted call.
C11_ExactlyOneStoreCall ==
    /\ \A r \in IssueIds :
         /\ issue[r].storeCalls <= 1
         /\ PassedValidation(r) =>
              /\ issue[r].pc # "done" => issue[r].storeCalls = 0
              /\ issue[r].pc = "done" => issue[r].storeCalls = 1
         /\ issue[r].stored = "accepted" => Cardinality(StoredFor(r)) = 1
    /\ Len(credentials)
         = Cardinality({r \in IssueIds : issue[r].stored = "accepted"})

C11_Witness ==
    \E r, q \in IssueIds :
      /\ issue[r].pc = "done" /\ issue[r].storeCalls = 1
      /\ ~HasPrefix(issue[r].transactionId)
      /\ issue[q].pc = "done" /\ issue[q].storeCalls = 1
      /\ HasPrefix(issue[q].transactionId)
      /\ Len(credentials) = 2

\* C12 as stated: no action of Commit (the nonce generation is one) happens
\* before Validate has completed, so a request that failed validation has
\* drawn no nonce.
C12_Original ==
    \A r \in IssueIds :
      issue[r].nonce # NoText => PassedValidation(r)

\* the commitment of the fields request r holds
CommitmentOf(r) ==
    Sha256Hex(DataToHash(issue[r].studentId, issue[r].universityId,
                         issue[r].credentialType, issue[r].issuedAt,
                         issue[r].nonce))

\* C12 amended: the nonce is drawn before Validate (a request that fails
\* validation has one); apart from that the steps run in the order
\* Validate, Commit, FundsCheck, LedgerWrite, SimulatedFallback, Persist:
\* the hash exists only after validation and is the commitment of the
\* captured fields, the balance is queried only after the hash exists, the
\* block reference only after a sufficient balance was found, the submission
\* only after the block reference, the transactionId only after the balance
\* query, and the store call only after the transactionId.
C12_StepOrder ==
    \A r \in IssueIds :
      /\ issue[r].nonce # NoText => ~Unauthorized(issue[r].caller)
      /\ issue[r].hash # NoHash =>
           /\ PassedValidation(r)
           /\ issue[r].nonce # NoText
           /\ issue[r].issuedAt \in Times
           /\ issue[r].hash = CommitmentOf(r)
      /\ issue[r].balanceQueries > 0 => issue[r].hash # NoHash
      /\ issue[r].blockhashQueries > 0 =>
           /\ issue[r].balanceQueries = 1
           /\ issue[r].balance > MinFeeLamports
      /\ issue[r].submissions > 0 =>
           /\ issue[r].blockhashQueries = 1
           /\ issue[r].pc \in {"createCredential", "done"}
      /\ issue[r].transactionId # NoText =>
           /\ issue[r].balanceQueries = 1
           /\ issue[r].pc \in {"createCredential", "done"}
      /\ issue[r].storeCalls > 0 =>
           /\ issue[r].transactionId # NoText
           /\ issue[r].pc = "done"
      /\ issue[r].pc = "getBalance" => issue[r].balanceQueries = 0
      /\ issue[r].pc = "getLatestBlockhash" => issue[r].blockhashQueries = 0
      /\ issue[r].pc = "sendAndConfirm" => issue[r].submissions = 0

C12_Witness ==
    \E r, q \in IssueIds :
      /\ issue[r].outcome = "InvalidInput"
      /\ issue[r].nonce # NoText
      /\ issue[q].outcome = "Persisted"
      /\ issue[q].submissions = 1
      /\ issue[q].blockhashQueries = 1

\* C13: every stored credential carries the nonce, and its hash is the
\* commitment of the fields read back from the stored record.
C13_StoredRecordReproducesHash ==
    \A i \in 1..Len(credentials) :
      /\ "nonce" \in DOMAIN credentials[i]
      /\ credentials[i].hash =
           Sha256Hex(DataToHash(credentials[i].studentId,
                                credentials[i].universityId,
                                credentials[i].credentialType,
                                credentials[i].issuedAt,
                                credentials[i].nonce))

\* C15: no two stored credentials have the same hash, whatever the
\* interleaving of the issuances that stored them, so each stored hash is
\* the hash of exactly one record and lookup by it returns that record.
C15_OneCredentialPerHash ==
    \A i \in 1..Len(credentials) :
      /\ \A j \in 1..Len(credentials) :
           credentials[i].hash = credentials[j].hash => i = j
      /\ GetCredentialByHash(credentials, credentials[i].hash) = credentials[i]

C15_Witness ==
    /\ Len(credentials) = 2
    /\ credentials[1].studentId = credentials[2].studentId
    /\ credentials[1].universityId = credentials[2].universityId
    /\ credentials[1].credentialType = credentials[2].credentialType
    /\ credentials[1].issuedAt = credentials[2].issuedAt
    /\ credentials[1].hash # credentials[2].hash

\* ------------------------------------------------------ verification claims
\* verification v looked up a credential that is ledger-backed
RealMode(v) ==
    /\ verify[v].credential # NoCredential
    /\ ~HasPrefix(verify[v].credential.transactionId)

\* verification v looked up a credential that is simulated
SimulatedMode(v) ==
    /\ verify[v].credential # NoCredential
    /\ HasPrefix(verify[v].credential.transactionId)

\* the ledger client handed verification v the transaction of its
\* credential exactly as the ledger holds it
FetchedAsHeld(v) ==
    /\ verify[v].fetch = "found"
    /\ \E n \in LedgerIndex(verify[v].credential.transactionId) :
         verify[v].fetched = ledger[n].instructions

\* C4: when an issuance was persisted with the signature of its confirmed
\* ledger write, a verification of the hash it returned that is handed the
\* transaction as the ledger holds it (as the issuance submitted it) ends
\* Verified with simulatedOnly false and blockchainProof.transactionId equal
\* to the transactionId the issuance returned.
C4_RealRoundTrip ==
    \A v \in VerifyIds : \A r \in IssueIds :
      (/\ issue[r].outcome = "Persisted"
       /\ ~HasPrefix(issue[r].response.transactionId)
       /\ verify[v].pc = "done"
       /\ verify[v].input = issue[r].response.hash
       /\ FetchedAsHeld(v)
       /\ verify[v].fetched = <<MemoInstruction(issue[r].hash)>>) =>
        /\ verify[v].outcome = "Verified"
        /\ verify[v].response.status = 200
        /\ verify[v].response.verified = TRUE
        /\ verify[v].response.simulatedOnly = FALSE
        /\ verify[v].response.blockchainProof.transactionId
             = issue[r].response.transactionId

C4_Witness ==
    \E v \in VerifyIds : \E r \in IssueIds :
      /\ issue[r].outcome = "Persisted"
      /\ issue[r].response.isSimulated = FALSE
      /\ verify[v].input = issue[r].response.hash
      /\ FetchedAsHeld(v)
      /\ verify[v].outcome = "Verified"
      /\ verify[v].response.blockchainProof.transactionId
           = issue[r].response.transactionId

\* C5: a verification that looked up a credential with a simulated
\* transactionId never goes on to the ledger: it has ended Verified with
\* simulatedOnly true and no blockchainProof, having made no ledger read.
C5_SimulatedRoundTrip ==
    \A v \in VerifyIds :
      SimulatedMode(v) =>
        /\ verify[v].pc = "done"
        /\ verify[v].outcome = "Verified"
        /\ verify[v].response.status = 200
        /\ verify[v].response.verified = TRUE
        /\ verify[v].response.simulatedOnly = TRUE
        /\ "blockchainProof" \notin DOMAIN verify[v].response
        /\ verify[v].ledgerReads = 0
        /\ verify[v].fetch = None

C5_Witness ==
    \E v \in VerifyIds : \E r \in IssueIds :
      /\ issue[r].outcome = "Persisted"
      /\ issue[r].response.isSimulated = TRUE
      /\ verify[v].input = issue[r].response.hash
      /\ verify[v].outcome = "Verified"
      /\ verify[v].response.simulatedOnly = TRUE

\* the instructions handed to verification v that are addressed to the memo
\* program and whose payload decodes to the credential's hash
MatchingInstructions(v) ==
    {i \in 1..Len(verify[v].fetched) :
       /\ verify[v].fetched[i].programId = MEMO_PROGRAM_ID
       /\ verify[v].fetched[i].data.rep \in {"buffer", "base64"}
       /\ verify[v].fetched[i].data.text = verify[v].credential.hash}

\* C6: a verification of a ledger-backed credential ends Verified only if
\* the transaction it was handed has an instruction addressed to the memo
\* program whose decoded payload is the credential's hash; when it was
\* handed a transaction with no such instruction it ends HashMismatch.
C6_TamperDetection ==
    \A v \in VerifyIds :
      RealMode(v) =>
        /\ verify[v].outcome = "Verified" =>
             /\ verify[v].fetch = "found"
             /\ MatchingInstructions(v) # {}
        /\ (/\ verify[v].pc = "done"
            /\ verify[v].fetch = "found"
            /\ MatchingInstructions(v) = {}) =>
             /\ verify[v].outcome = "HashMismatch"
             /\ verify[v].response.status = 400

C6_Witness ==
    \E v \in VerifyIds :
      /\ RealMode(v)
      /\ verify[v].fetch = "found"
      /\ Len(verify[v].fetched) = 1
      /\ verify[v].fetched[1].programId = MEMO_PROGRAM_ID
      /\ verify[v].fetched[1].data.text # verify[v].credential.hash
      /\ verify[v].outcome = "HashMismatch"

\* the text is 64 hex digits, all of them lower case
LowercaseHex64(hash) ==
    /\ hash.length = HashHexLength
    /\ hash.hexOnly
    /\ hash.letterCase = "lower"

\* C7 as stated: every input that is not 64 lowercase hex characters is
\* rejected as MalformedHash without a store lookup.
C7_Original ==
    \A v \in VerifyIds :
      (verify[v].pc # "idle" /\ ~LowercaseHex64(verify[v].input)) =>
        /\ verify[v].outcome = "MalformedHash"
        /\ verify[v].storeLookups = 0

\* C7 amended: every input that is not 64 hexadecimal characters, in either
\* letter case, is rejected as MalformedHash (status 400) without a store
\* lookup or a ledger read; 64 upper-case hex characters are accepted and
\* looked up.
C7_MalformedHashRejected ==
    \A v \in VerifyIds :
      /\ (/\ verify[v].pc # "idle"
          /\ ~(verify[v].input.length = HashHexLength
               /\ verify[v].input.hexOnly)) =>
           /\ verify[v].pc = "done"
           /\ verify[v].outcome = "MalformedHash"
           /\ verify[v].response.status = 400
           /\ verify[v].storeLookups = 0
           /\ verify[v].ledgerReads = 0
      /\ (/\ verify[v].pc # "idle"
          /\ verify[v].input.length = HashHexLength
          /\ verify[v].input.hexOnly) =>
           verify[v].outcome # "MalformedHash"

C7_Witness ==
    \E v \in VerifyIds :
      /\ verify[v].pc = "done"
      /\ verify[v].outcome = "MalformedHash"
      /\ verify[v].input.length = HashHexLength - 1
      /\ verify[v].input.hexOnly
      /\ verify[v].storeLookups = 0

\* ------------------------------------------- verification claims, continued
\* C16: a step of a verify request leaves the record store and the ledger
\* as they were; a step of anything else only appends to the store; and the
\* transactionId of a stored credential is, in every state, the value its
\* issuance assigned.
C16_VerifyReadOnly ==
    /\ [](\A r \in IssueIds : \A i \in StoredFor(r) :
            /\ issue[r].transactionId # NoText
            /\ credentials[i].transactionId = issue[r].transactionId)
    /\ [][/\ verify' # verify =>
               credentials' = credentials /\ ledger' = ledger
          /\ Len(credentials') >= Len(credentials)
          /\ \A i \in 1..Len(credentials) : credentials'[i] = credentials[i]
         ]_vars

C16_Witness ==
    \E v \in VerifyIds :
      /\ verify[v].pc = "done"
      /\ verify[v].outcome = "HashMismatch"
      /\ verify[v].ledgerReads = 1
      /\ Len(credentials) = 1
      /\ ~HasPrefix(credentials[1].transactionId)

\* C17: a ledger read that threw ends its request in LedgerUnavailable
\* (500) with nothing fetched; the request sent again for the same hash
\* starts from the stored credential as it was, reads the ledger anew, and
\* returns Verified when the ledger hands back the transaction as it holds
\* it.
C17_LedgerErrorThisRequestOnly ==
    \A v \in VerifyIds :
      /\ verify[v].fetch = "threw" =>
           /\ verify[v].pc = "done"
           /\ verify[v].outcome = "LedgerUnavailable"
           /\ verify[v].response = [status |-> 500]
           /\ verify[v].fetched = <<>>
      /\ verify[v].earlier # <<>> =>
           /\ \A k \in 1..Len(verify[v].earlier) :
                verify[v].earlier[k] = "LedgerUnavailable"
           /\ verify[v].pc # "getCredentialByHash" =>
                /\ verify[v].storeLookups = 1
                /\ verify[v].credential =
                     GetCredentialByHash(credentials, verify[v].input)
                /\ RealMode(v)
           /\ verify[v].pc = "done" => verify[v].ledgerReads = 1
           /\ FetchedAsHeld(v) =>
                /\ verify[v].outcome = "Verified"
                /\ verify[v].response.status = 200
                /\ verify[v].response.simulatedOnly = FALSE

C17_Witness ==
    \E v \in VerifyIds :
      /\ verify[v].earlier = <<"LedgerUnavailable">>
      /\ verify[v].pc = "done"
      /\ FetchedAsHeld(v)
      /\ verify[v].outcome = "Verified"

\* the input of request v is the hash of no issuance
NeverIssued(v) == \A r \in IssueIds : issue[r].hash # verify[v].input

\* C18: a verify request whose input is well formed and is the hash of no
\* issuance never reaches the ledger read, and ends in NotFound (404).
C18_UnknownHashNotFound ==
    \A v \in VerifyIds :
      (verify[v].input # NoHash /\ HashFormatOk(verify[v].input)
         /\ NeverIssued(v)) =>
        /\ verify[v].pc \in {"getCredentialByHash", "done"}
        /\ verify[v].ledgerReads = 0
        /\ verify[v].fetch = None
        /\ verify[v].pc = "done" =>
             /\ verify[v].outcome = "NotFound"
             /\ verify[v].response = [status |-> 404]
             /\ verify[v].storeLookups = 1

C18_Witness ==
    \E v \in VerifyIds :
      /\ verify[v].pc = "done"
      /\ verify[v].input = Sha256Hex(UnissuedDigest)
      /\ verify[v].outcome = "NotFound"
      /\ Len(credentials) = 1

\* C19: when the stored credential is real-mode and the ledger read
\* resolves to no transaction, the request ends in TransactionNotFound
\* (404) and its response does not say verified.
C19_AbsentTransactionRejected ==
    \A v \in VerifyIds :
      (RealMode(v) /\ verify[v].fetch = "absent") =>
        /\ verify[v].pc = "done"
        /\ verify[v].outcome = "TransactionNotFound"
        /\ verify[v].response = [status |-> 404]
        /\ verify[v].ledgerReads = 1

C19_Witness ==
    \E v \in VerifyIds :
      /\ RealMode(v)
      /\ verify[v].fetch = "absent"
      /\ verify[v].outcome = "TransactionNotFound"
      /\ LedgerIndex(verify[v].credential.transactionId) # {}

\* --------------------------------------------------------- commitment claim
\* C14: two field tuples that differ in at least one field and both pass
\* validation give different strings to the hash function, and so
\* different commitments.
C14_CommitmentInputUnambiguous ==
    (/\ commit.pc = "joined"
     /\ commit.left # commit.right
     /\ UserInputValid(BodyOf(commit.left))
     /\ UserInputValid(BodyOf(commit.right))) =>
       /\ commit.leftData # commit.rightData
       /\ commit.leftHash # commit.rightHash

\* --------------------------------------------------------- KeyManager claim
\* the calls of getSigningKeypair that returned a keypair
KeyReturned == {c \in KeyCallIds : /\ keys.calls[c].pc # "idle"
                                   /\ ~keys.calls[c].threw}

\* C20: all calls of getSigningKeypair that return, those made before any
\* caller resumed and every later one, return the same keypair object, which
\* is the cached one; at most one keypair is ever made for the cache; and
\* the cached keypair, once set, never changes.
C20_SingleInitialisation ==
    /\ [](/\ \A c \in KeyReturned : \A d \in KeyReturned :
               keys.calls[c].result = keys.calls[d].result
          /\ \A c \in KeyReturned :
               /\ keys.calls[c].result # NoKeypair
               /\ keys.calls[c].result = keys.cachedKeypair
          /\ keys.forCache <= 1
          /\ keys.forCache = 0 <=> keys.cachedKeypair = NoKeypair)
    /\ [][keys.cachedKeypair # NoKeypair =>
            keys.cachedKeypair' = keys.cachedKeypair]_vars

C20_Witness ==
    \E c \in KeyCallIds : \E d \in KeyCallIds : \E e \in KeyCallIds :
      /\ c # d
      /\ keys.calls[c].pc = "settled" /\ keys.calls[d].pc = "settled"
      /\ keys.calls[e].pc = "resumed"
      /\ {c, d, e} \subseteq KeyReturned
      /\ keys.utility = 1
      /\ keys.cachedKeypair.secretKey.encoding = "generated"
      /\ keys.calls[c].result = keys.calls[d].result

\* ------------------------------------------------- issuance claims, the rest
\* C24: an authorized issuance whose credentialType is a string outside the
\* credential types ends in InvalidInput.
C24_UnknownTypeRejected ==
    \A r \in IssueIds :
      (/\ issue[r].pc # "idle"
       /\ issue[r].caller.authenticated
       /\ issue[r].caller.role = "university"
       /\ issue[r].body.credentialType.kind = "string"
       /\ issue[r].body.credentialType.text \notin CredentialTypes) =>
         /\ issue[r].balanceQueries = 0
         /\ issue[r].pc = "done" => issue[r].outcome = "InvalidInput"

\* the ledger transactions whose signature is the given transactionId
SignedAs(transactionId) ==
    {n \in 1..Len(ledger) : Signature(n) = transactionId}

\* C26: every stored credential whose transactionId lacks the simulated
\* prefix has exactly one ledger transaction with that signature; that
\* transaction was submitted by the issuance that stored the credential, in
\* its one confirmed submission, and its memo instruction carries the
\* credential's hash; and no other stored credential has that transactionId.
C26_RealIdIsOwnConfirmedWrite ==
    \A i \in 1..Len(credentials) :
      ~HasPrefix(credentials[i].transactionId) =>
        /\ Cardinality(SignedAs(credentials[i].transactionId)) = 1
        /\ \A n \in SignedAs(credentials[i].transactionId) :
             /\ ledger[n].instructions
                  = <<[programId |-> MEMO_PROGRAM_ID,
                       data |-> [rep |-> "buffer",
                                 text |-> credentials[i].hash]]>>
             /\ issue[ledger[n].request].hash = credentials[i].hash
             /\ issue[ledger[n].request].stored = "accepted"
             /\ issue[ledger[n].request].submissions = 1
             /\ ~issue[ledger[n].request].writeThrew
             /\ issue[ledger[n].request].signature
                  = credentials[i].transactionId
        /\ \A j \in 1..Len(credentials) :
             credentials[j].transactionId = credentials[i].transactionId
               => j = i

C26_Witness ==
    /\ Len(credentials) = 2
    /\ Len(ledger) = 2
    /\ ~HasPrefix(credentials[1].transactionId)
    /\ ~HasPrefix(credentials[2].transactionId)
    /\ ledger[1].request # ledger[2].request
    /\ issue[ledger[1].request].hash = credentials[2].hash

\* C27: the universityId of a stored credential, the one in its commitment
\* and the one its issuance holds are the id of the caller that issued it,
\* whatever universityId the request body carried.
C27_UniversityIdIsCaller ==
    \A r \in IssueIds :
      /\ issue[r].hash # NoHash =>
           /\ issue[r].universityId = issue[r].caller.id
           /\ issue[r].hash =
                Sha256Hex(DataToHash(issue[r].studentId, issue[r].caller.id,
                                     issue[r].credentialType,
                                     issue[r].issuedAt, issue[r].nonce))
      /\ \A i \in StoredFor(r) :
           credentials[i].universityId = issue[r].caller.id

C27_Witness ==
    \E r \in IssueIds :
      /\ issue[r].stored = "accepted"
      /\ issue[r].body.universityId.kind = "number"
      /\ issue[r].body.universityId.text # DecStr(issue[r].caller.id)
      /\ \E i \in StoredFor(r) :
           credentials[i].universityId = issue[r].caller.id

\* request r came from a caller that is not authenticated or does not hold
\* the university role
NotIssuer(r) ==
    /\ issue[r].pc # "idle"
    /\ \/ ~issue[r].caller.authenticated
       \/ issue[r].caller.role # "university"

\* C28: an issue request from a caller that is not authenticated or is not
\* a university is refused with 403 in its first step, before validation:
\* it draws no nonce, computes no hash, makes no balance query, no
\* block-reference query, no submission and no store call, nothing in the
\* ledger comes from it, and the step that refuses it leaves the store and
\* the ledger as they were.
C28_RefusedBeforeValidate ==
    /\ [](\A r \in IssueIds :
            NotIssuer(r) =>
              /\ issue[r].pc = "done"
              /\ issue[r].outcome = "Unauthorized"
              /\ issue[r].response = [status |-> 403]
              /\ issue[r].body = NoBody
              /\ issue[r].nonce = NoText
              /\ issue[r].hash = NoHash
              /\ issue[r].balanceQueries = 0
              /\ issue[r].blockhashQueries = 0
              /\ issue[r].submissions = 0
              /\ issue[r].storeCalls = 0
              /\ issue[r].stored = None
              /\ SubmittedBy(r) = {})
    /\ [][\A r \in IssueIds :
            (issue[r].pc = "idle" /\ issue'[r].outcome = "Unauthorized") =>
              credentials' = credentials /\ ledger' = ledger]_vars

C28_Witness ==
    \E r, q \in IssueIds :
      /\ issue[r].outcome = "Unauthorized"
      /\ issue[r].caller.authenticated
      /\ issue[r].caller.role = "student"
      /\ issue[q].outcome = "Unauthorized"
      /\ ~issue[q].caller.authenticated

\* ------------------------------------------------- KeyManager claims, the rest
\* the environments whose text is set and is neither an array of bytes nor
\* base58 text
UndecodableEnvs == {EnvSet(<<"[","1",",">>), EnvSet(<<"0","O","l">>)}

\* the calls of getSigningKeypair made so far
KeyCalled == {c \in KeyCallIds : keys.calls[c].pc # "idle"}

\* C22: when SOLANA_PRIVATE_KEY is set and cannot be decoded, every call of
\* getSigningKeypair ends in the invalid-format error and returns no
\* keypair; the cache stays empty, getSigningKeypair generates no keypair,
\* and each call has tried the decoding once.
C22_InvalidKeyFormat ==
    keys.env \in UndecodableEnvs =>
      /\ keys.cachedKeypair = NoKeypair
      /\ keys.forCache = 0
      /\ keys.created = keys.utility
      /\ keys.decodes = Cardinality(KeyCalled)
      /\ \A c \in KeyCalled :
           /\ keys.calls[c].threw
           /\ keys.calls[c].error
                = "Invalid keypair format in environment variable"
           /\ keys.calls[c].result = NoKeypair

C22_Witness ==
    /\ keys.env = EnvSet(<<"0","O","l">>)
    /\ Cardinality(KeyCalled) = 2
    /\ \A c \in KeyCalled : keys.calls[c].threw
    /\ keys.decodes = 2

\* C25: a step of generateNewKeypair leaves the cached keypair, the count
\* of keypairs made for the cache and every call's result as they were; the
\* key it returns is never the cached one; and whether or not it was
\* called, every call of getSigningKeypair that returns gives the cached
\* keypair, whose key is the one the environment decodes to when one is
\* configured.
C25_UtilityLeavesCacheAlone ==
    /\ [](/\ keys.utility > 0 =>
               /\ keys.utilityKey # NoSecret
               /\ keys.utilityKey # keys.cachedKeypair.secretKey
          /\ \A c \in KeyReturned :
               keys.calls[c].result = keys.cachedKeypair
          /\ keys.cachedKeypair # NoKeypair =>
               /\ keys.env = EnvSet(<<"[","1",",","2","]">>) =>
                    keys.cachedKeypair.secretKey
                      = [encoding |-> "array", of |-> <<"1",",","2">>]
               /\ keys.env = EnvSet(<<"4","v","J">>) =>
                    keys.cachedKeypair.secretKey
                      = [encoding |-> "base58", of |-> <<"4","v","J">>]
               /\ ~EnvProvided(keys.env) =>
                    keys.cachedKeypair.secretKey.encoding = "generated")
    /\ [][keys'.utility # keys.utility =>
            /\ keys'.cachedKeypair = keys.cachedKeypair
            /\ keys'.forCache = keys.forCache
            /\ keys'.calls = keys.calls]_vars

C25_Witness ==
    \E c \in KeyCallIds : \E d \in KeyCallIds :
      /\ keys.utility = 1
      /\ keys.calls[c].pc = "resumed" /\ keys.calls[d].pc = "settled"
      /\ keys.calls[c].result.instance = 1
      /\ keys.utilityKey = GeneratedSecret(2)
      /\ keys.calls[d].result = keys.calls[c].result

\* ------------------------------------------------------------- signer claim
\* keypair kp is one that a call of getSigningKeypair returned
SuppliedByManager(kp) ==
    \E c \in KeyCallIds :
      /\ keys.calls[c].pc # "idle"
      /\ ~keys.calls[c].threw
      /\ keys.calls[c].result = kp

\* C21: the keypair whose balance an issuance queries, and the fee-payer
\* and the signers of every ledger transaction an issuance submits, is the
\* keypair getSigningKeypair returned: the cached one, decoded from
\* SOLANA_PRIVATE_KEY when that is set.
C21_SignerIsManagersKeypair ==
    /\ \A r \in IssueIds :
         issue[r].balanceQueries > 0 =>
           /\ SuppliedByManager(issue[r].balanceOf)
           /\ issue[r].balanceOf = keys.cachedKeypair
    /\ \A n \in 1..Len(ledger) :
         /\ SuppliedByManager(ledger[n].feePayer)
         /\ ledger[n].feePayer = keys.cachedKeypair
         /\ ledger[n].signers = <<keys.cachedKeypair>>

\* ------------------------------------------------------------- health claim
\* C23: a health request answers healthy (200) exactly when isConnected()
\* reported true to it and its ledger probe resolved, and degraded (503)
\* otherwise; the answer is the same whether the wallet query found the
\* wallet funded, found it short of funds, or was rejected.
C23_HealthAggregation ==
    \A h \in HealthIds :
      health[h].pc = "done" =>
        LET up == /\ health[h].memstoreHealthy
                  /\ health[h].memstoreStatus = "connected"
                  /\ health[h].probe = "resolved"
        IN /\ up <=> health[h].response.overall = "healthy"
           /\ up <=> health[h].response.status = 200
           /\ ~up <=> health[h].response.overall = "degraded"
           /\ ~up <=> health[h].response.status = 503
           /\ health[h].response.wallet.status
                \in {"funded", "insufficient_funds", "no_funds"}
           /\ \A g \in HealthIds :
                (/\ health[g].pc = "done"
                 /\ health[g].memstoreHealthy = health[h].memstoreHealthy
                 /\ health[g].probe = health[h].probe) =>
                   /\ health[g].response.overall = health[h].response.overall
                   /\ health[g].response.status = health[h].response.status

C23_Witness ==
    \E h \in HealthIds : \E g \in HealthIds :
      /\ health[h].pc = "done" /\ health[g].pc = "done"
      /\ health[h].response.overall = "healthy"
      /\ health[h].balanceQuery = "rejected"
      /\ health[g].response.overall = "degraded"
      /\ ~health[g].memstoreHealthy
      /\ health[g].probe = "resolved"
      /\ health[g].response.wallet.status = "funded"

====
